---- MODULE Spec2Model ----
(***************************************************************************)
(* Model of Hantek.py: the 10-byte command frame (HantekCommand.to_bytes), *)
(* the GTK handlers that send frames over USB, the capture read loop       *)
(* (on_capture_button_clicked) and the waveform decoder (draw_callback).   *)
(***************************************************************************)
EXTENDS Integers, Sequences, FiniteSets, TLC

VARIABLES
    cur_config,      \* the Config object every handler shares
    saved_config,    \* content of CONFIG_FILE as last written by save_config
    capture_buffer,  \* the module-level bytearray
    pc,              \* "idle", or "reading" while the capture loop runs
    total_samples,   \* local of on_capture_button_clicked
    count,           \* local of on_capture_button_clicked
    reads,           \* reads of the current/last capture that returned data
    stalls,          \* reads of it that returned no byte (saturating)
    received,        \* the chunks returned to the current/last capture, joined
    last_read,       \* the last handle.read call of the current/last capture
    io,              \* the last handler: its name, its command, what it wrote
    status,          \* how the last handler ended
    transport,       \* how the USB device behaves
    drawn,           \* what the last draw_callback decoded
    redraw,          \* drawing_area.queue_draw() was called by the last handler
    codec,           \* input and output of an encoder applied on its own
    filled           \* the configuration and byte count of the last capture
                     \* that ran to its end

vars == <<cur_config, saved_config, capture_buffer, pc, total_samples, count,
          reads, stalls, received, last_read, io, status, transport, drawn,
          redraw, codec, filled>>

(***************************************************************************)
(* Constants of Hantek.py                                                  *)
(***************************************************************************)
FUNC_SCOPE_SETTING == 0
FUNC_SCOPE_CAPTURE == 256
FUNC_AWG_SETTING == 2
FUNC_SCREEN_SETTING == 3

SCOPE_ENABLE_CH1 == 0
SCOPE_ENABLE_CH2 == 6
SCOPE_START_RECV == 22
SCOPE_SCALE_TIME == 14
SCOPE_OFFSET_TIME == 15
SCOPE_TRIGGER_SOURCE == 16
SCOPE_TRIGGER_LEVEL == 20

AWG_FREQ == 1
AWG_AMP == 2
AWG_OFF == 3
AWG_START == 8

SCREEN_VAL_SCOPE == 0
SCREEN_VAL_DMM == 1
SCREEN_VAL_AWG == 2

EP_OUT == 2          \* dev.write(0x02, ...)
EP_IN == 129         \* handle.read(0x81, ...)
CHUNK == 64          \* min(total_samples - count, 64)
BUFFER_SIZE == 6000  \* bytearray(6000)

(***************************************************************************)
(* struct.pack.  A field out of its range raises struct.error, modelled as *)
(* the result PackError; otherwise the result is a sequence of bytes.      *)
(***************************************************************************)
StructError == "struct.error"

PackError == <<-1>>

IsBytes(r) == r # PackError

\* format "B": one unsigned byte
PackB(v) == IF v \in 0..255 THEN <<v>> ELSE PackError

\* format "<H": unsigned 16 bit, little endian
PackH(v) == IF v \in 0..65535 THEN <<v % 256, v \div 256>> ELSE PackError

\* A Python int that may exceed 31 bits is held as <<hi, lo>> with value
\* hi * 65536 + lo and lo in 0..65535 (hi is negative for a negative int).
Wide(hi, lo) == <<hi, lo>>

\* format "<I": unsigned 32 bit, little endian
PackI(w) ==
    IF w[1] \in 0..65535
    THEN <<w[2] % 256, w[2] \div 256, w[1] % 256, w[1] \div 256>>
    ELSE PackError

\* struct.pack('<HH', a, b)
PackHH(a, b) ==
    IF IsBytes(PackH(a)) /\ IsBytes(PackH(b))
    THEN PackH(a) \o PackH(b)
    ELSE PackError

(***************************************************************************)
(* HantekCommand                                                           *)
(***************************************************************************)
DefaultVals == <<0, 0, 0, 0>>

HantekCommand(func, cmd, vals) == [func |-> func, cmd |-> cmd, vals |-> vals]

\* struct.pack("<BBHBBBBBB", 0x00, 0x0A, func, cmd, *vals, 0x00)
ToBytes_SwappedFunc(c) ==
    IF /\ IsBytes(PackH(c.func))
       /\ IsBytes(PackB(c.cmd))
       /\ Len(c.vals) = 4
       /\ \A i \in 1..4 : IsBytes(PackB(c.vals[i]))
    THEN <<0, 10, c.func \div 256, c.func % 256>> \o PackB(c.cmd)
         \o PackB(c.vals[1]) \o PackB(c.vals[2])
         \o PackB(c.vals[3]) \o PackB(c.vals[4]) \o PackB(0)
    ELSE PackError

ToBytes(c) ==
    IF /\ IsBytes(PackH(c.func))
       /\ IsBytes(PackB(c.cmd))
       /\ Len(c.vals) = 4
       /\ \A i \in 1..4 : IsBytes(PackB(c.vals[i]))
    THEN PackB(0) \o PackB(10) \o PackH(c.func) \o PackB(c.cmd)
         \o PackB(c.vals[1]) \o PackB(c.vals[2])
         \o PackB(c.vals[3]) \o PackB(c.vals[4]) \o PackB(0)
    ELSE PackError

(***************************************************************************)
(* Config.  The floating point fields time_offset and trigger_level are    *)
(* held in thousandths, awg_amplitude and awg_offset (volts) in millionths;*)
(* awg_frequency is a Wide integer; channel_enable[ch + 1] is the flag of  *)
(* channel index ch.                                                       *)
(***************************************************************************)
Config(ce, ns) ==
    [channel_enable |-> ce,
     time_scale     |-> 0,
     time_offset    |-> 0,
     trigger_source |-> 0,
     trigger_level  |-> 0,
     awg_frequency  |-> Wide(0, 1000),
     awg_amplitude  |-> 2500000,
     awg_offset     |-> 0,
     num_samples    |-> ns]

DEFAULT_NUM_SAMPLES == 1200

\* Config(): both channels enabled, 1200 samples
DefaultConfig == Config(<<TRUE, TRUE>>, DEFAULT_NUM_SAMPLES)

\* int(x) of the bool x
BoolInt(b) == IF b THEN 1 ELSE 0

\* int(x) of a float held as n thousandths: truncation towards zero
IntOfMilli(n) == IF n >= 0 THEN n \div 1000 ELSE -((-n) \div 1000)

Abs(n) == IF n >= 0 THEN n ELSE -n

Min(a, b) == IF a <= b THEN a ELSE b

Max(a, b) == IF a >= b THEN a ELSE b

(***************************************************************************)
(* capture_buffer.  The bytearray is held as its size and the shortest     *)
(* prefix after which every byte is zero: bytearray(6000) is               *)
(* [size |-> 6000, bytes |-> <<>>].  Offsets are 0-based as in Python.     *)
(***************************************************************************)
Zeros(n) == [i \in 1..n |-> 0]

RECURSIVE StripZeros(_)
StripZeros(s) ==
    IF s = <<>> \/ s[Len(s)] # 0 THEN s ELSE StripZeros(SubSeq(s, 1, Len(s) - 1))

ByteArray(n) == [size |-> n, bytes |-> <<>>]

BufLen(b) == b.size

\* b[i] for 0 <= i < len(b)
BufGet(b, i) == IF i < Len(b.bytes) THEN b.bytes[i + 1] ELSE 0

\* b[0:n] for 0 <= n <= len(b)
BufPrefix(b, n) ==
    IF n <= Len(b.bytes)
    THEN SubSeq(b.bytes, 1, n)
    ELSE b.bytes \o Zeros(n - Len(b.bytes))

\* b[start:stop] = data, for 0 <= start <= stop: Python clamps both ends to
\* len(b), replaces the slice by data and so may shrink or grow the bytearray.
SliceAssign(b, start, stop, data) ==
    LET lo == Min(start, b.size)
        hi == Min(stop, b.size)
    IN  [size  |-> lo + Len(data) + (b.size - hi),
         bytes |-> StripZeros(BufPrefix(b, lo) \o data
                              \o SubSeq(b.bytes, hi + 1, Len(b.bytes)))]

(***************************************************************************)
(* The USB device.  handle.read(0x81, length) returns at most length bytes *)
(* or raises usb.core.USBError; dev.write may raise USBError.  transport   *)
(* fixes which of these the device does:                                   *)
(*   "full"     every read returns the requested length                    *)
(*   "trickle"  every read returns 1 byte                                  *)
(*   "stalled"  every read returns 0 bytes                                 *)
(*   "erratic"  a read returns 0, 1, length - 1 or length bytes or fails;  *)
(*              a write may fail                                           *)
(***************************************************************************)
USBError == "USBError"

TransportKinds == {"full", "trickle", "stalled", "erratic"}

ReadFails(kind) == kind = "erratic"

WriteFails(kind) == kind = "erratic"

ReadLens(kind, length) ==
    CASE kind = "full"    -> {length}
      [] kind = "trickle" -> {Min(1, length)}
      [] kind = "stalled" -> {0}
      [] OTHER            -> {0, Min(1, length), Max(length - 1, 0), length}

\* the k-th byte (from 0) the device sends in answer to a capture-start
Sample(k) == 29 + ((7 * k) % 202)

\* the n bytes that follow the first from bytes of the answer
Chunk(from, n) == [i \in 1..n |-> Sample(from + i - 1)]

(***************************************************************************)
(* What a handler leaves behind                                            *)
(***************************************************************************)
NoCommand == [func |-> -1, cmd |-> -1, vals |-> <<>>]

NoDraw == [done |-> FALSE, series |-> <<<<>>, <<>>>>]

NoRead == [ep |-> 0, length |-> 0, ok |-> FALSE, got |-> 0]

\* the record of a handler called for a widget ("" when it does not look at
\* it) that has sent (or tried to send) command c and written the frames w
IO(name, widget, c, w) ==
    [handler |-> name, widget |-> widget, cmd |-> c, wrote |-> w]

\* the locals of on_capture_button_clicked, when no capture has run since
\* the last handler started
NoCapture ==
    /\ total_samples' = 0
    /\ count' = 0
    /\ reads' = 0
    /\ stalls' = 0
    /\ received' = <<>>
    /\ last_read' = NoRead

\* no capture has run to its end
NoFill == [done |-> FALSE, channel_enable |-> <<FALSE, FALSE>>,
           num_samples |-> 0, count |-> 0]

\* no encoder has been called on its own
NoCall == [op |-> "none", cmd |-> NoCommand, flags |-> <<FALSE, FALSE>>,
           samples |-> 0, val |-> Wide(0, 0), done |-> FALSE]

\* send_command(dev, cmd): dev.write(0x02, cmd.to_bytes()).  The frame is
\* encoded before write is called, so struct.error leaves nothing written.
\* The result is the set of ways the call can end.
SendCommand_Masking(c) ==
    {[status |-> "ok",
      wrote  |-> <<[ep   |-> EP_OUT,
                    data |-> ToBytes([c EXCEPT !.vals =
                                 [i \in 1..4 |-> c.vals[i] % 256]])]>>]}

SendCommand_WrongEndpoint(c) ==
    IF ~IsBytes(ToBytes(c))
    THEN {[status |-> StructError, wrote |-> <<>>]}
    ELSE {[status |-> "ok", wrote |-> <<[ep |-> EP_IN, data |-> ToBytes(c)]>>]}

SendCommand(c) ==
    IF ~IsBytes(ToBytes(c))
    THEN {[status |-> StructError, wrote |-> <<>>]}
    ELSE {[status |-> "ok", wrote |-> <<[ep |-> EP_OUT, data |-> ToBytes(c)]>>]}
         \cup (IF WriteFails(transport)
               THEN {[status |-> USBError, wrote |-> <<>>]}
               ELSE {})

\* save_config(cfg) after the statements before it: reached only when none
\* of them raised
SaveConfig(st, cfg) == IF st = "ok" THEN cfg ELSE saved_config

(***************************************************************************)
(* Initial states.  main() loads cur_config from CONFIG_FILE when it       *)
(* exists (load_config), so the file and the object agree at start.        *)
(***************************************************************************)
InitWith(configs, kinds) ==
    /\ cur_config \in configs
    /\ saved_config = cur_config
    /\ capture_buffer = ByteArray(BUFFER_SIZE)
    /\ pc = "idle"
    /\ total_samples = 0
    /\ count = 0
    /\ reads = 0
    /\ stalls = 0
    /\ received = <<>>
    /\ last_read = NoRead
    /\ io = IO("main", "", NoCommand, <<>>)
    /\ status = "ok"
    /\ transport \in kinds
    /\ drawn = NoDraw
    /\ redraw = FALSE
    /\ codec = NoCall
    /\ filled = NoFill

(***************************************************************************)
(* Handlers of the capture pipeline.  GTK runs one handler at a time, to   *)
(* its end: a handler starts only when pc = "idle".                        *)
(***************************************************************************)
\* on_channel_enable(switch, state)
OnChannelEnable ==
    /\ pc = "idle"
    /\ \E switch \in {"channel_enable_switch_ch1", "channel_enable_switch_ch2"},
          state \in BOOLEAN :
         LET idx == IF switch = "channel_enable_switch_ch1" THEN 0 ELSE 1
             cmd == IF idx = 0 THEN SCOPE_ENABLE_CH1 ELSE SCOPE_ENABLE_CH2
             cfg == [cur_config EXCEPT !.channel_enable[idx + 1] = state]
             c   == HantekCommand(FUNC_SCOPE_SETTING, cmd,
                                  <<BoolInt(state), 0, 0, 0>>)
         IN  \E r \in SendCommand(c) :
               /\ cur_config' = cfg
               /\ io' = IO("on_channel_enable", switch, c, r.wrote)
               /\ status' = r.status
               /\ saved_config' = SaveConfig(r.status, cfg)
    /\ drawn' = NoDraw
    /\ redraw' = FALSE
    /\ NoCapture
    /\ UNCHANGED <<capture_buffer, pc, transport, codec, filled>>

\* on_capture_samples(widget, scroll), v the spin button's value
OnCaptureSamples(values) ==
    /\ pc = "idle"
    /\ \E v \in values :
         /\ cur_config' = [cur_config EXCEPT !.num_samples = v]
         /\ saved_config' = cur_config'
    /\ io' = IO("on_capture_samples", "", NoCommand, <<>>)
    /\ status' = "ok"
    /\ drawn' = NoDraw
    /\ redraw' = FALSE
    /\ NoCapture
    /\ UNCHANGED <<capture_buffer, pc, transport, codec, filled>>

\* num_channels of on_capture_button_clicked and draw_callback
NumChannels(cfg) ==
    BoolInt(cfg.channel_enable[1]) + BoolInt(cfg.channel_enable[2])

\* lines 319-322: the capture-start command; its vals are PackError when
\* struct.pack('<HH', ch1_samples, ch2_samples) raises struct.error
CaptureCommand_Swapped(cfg) ==
    LET ch1_samples == IF cfg.channel_enable[1] THEN cfg.num_samples ELSE 0
        ch2_samples == IF cfg.channel_enable[2] THEN cfg.num_samples ELSE 0
    IN  [HantekCommand(FUNC_SCOPE_CAPTURE, SCOPE_START_RECV, DefaultVals)
            EXCEPT !.vals = PackHH(ch2_samples, ch1_samples)]

CaptureCommand(cfg) ==
    LET ch1_samples == IF cfg.channel_enable[1] THEN cfg.num_samples ELSE 0
        ch2_samples == IF cfg.channel_enable[2] THEN cfg.num_samples ELSE 0
    IN  [HantekCommand(FUNC_SCOPE_CAPTURE, SCOPE_START_RECV, DefaultVals)
            EXCEPT !.vals = PackHH(ch1_samples, ch2_samples)]

\* on_capture_button_clicked, lines 316-325: up to the first loop test
CaptureStart ==
    /\ pc = "idle"
    /\ total_samples' = cur_config.num_samples * NumChannels(cur_config)
    /\ LET c == CaptureCommand(cur_config)
       IN  IF ~IsBytes(c.vals)
           THEN /\ io' = IO("on_capture_button_clicked", "", NoCommand, <<>>)
                /\ status' = StructError
                /\ pc' = "idle"
           ELSE \E r \in SendCommand(c) :
                  /\ io' = IO("on_capture_button_clicked", "", c, r.wrote)
                  /\ status' = IF r.status = "ok" THEN "running" ELSE r.status
                  /\ pc' = IF r.status = "ok" THEN "reading" ELSE "idle"
    /\ count' = 0
    /\ reads' = 0
    /\ stalls' = 0
    /\ received' = <<>>
    /\ last_read' = NoRead
    /\ drawn' = NoDraw
    /\ redraw' = FALSE
    /\ UNCHANGED <<cur_config, saved_config, capture_buffer, transport, codec,
                   filled>>

\* the loop test of line 326
LoopTest_OffByOne(c, total) == c + 1 < total

LoopTest(c, total) == c < total

\* the length asked of handle.read, line 327
ReadLength_WholeChunk(c, total) == CHUNK

ReadLength(c, total) == Min(total - c, CHUNK)

\* The zero-length reads of one capture are counted up to MaxStalls, one
\* more than the retry budget a bounded loop would allow.
RetryBudget == 3

MaxStalls == RetryBudget + 1

\* handle.read(0x81, length) when c bytes of the answer have been read:
\* the ways the call can end
ReadOutcomes_ShortIsError(c, length) ==
    {[ok |-> n = length, data |-> IF n = length THEN Chunk(c, n) ELSE <<>>] :
        n \in ReadLens(transport, length)}

ReadOutcomes(c, length) ==
    {[ok |-> TRUE, data |-> Chunk(c, n)] : n \in ReadLens(transport, length)}
    \cup (IF ReadFails(transport) THEN {[ok |-> FALSE, data |-> <<>>]} ELSE {})

\* one pass of the loop body, lines 327-330
CaptureRead_Retrying ==
    /\ pc = "reading"
    /\ LoopTest(count, total_samples)
    /\ LET length == ReadLength(count, total_samples)
       IN  \E r \in ReadOutcomes(count, length) :
             /\ last_read' = [ep |-> EP_IN, length |-> length, ok |-> r.ok,
                              got |-> Len(r.data)]
             /\ IF r.ok
                THEN /\ capture_buffer' =
                          SliceAssign(capture_buffer, count,
                                      count + Len(r.data), r.data)
                     /\ count' = count + Len(r.data)
                     /\ received' = received \o r.data
                     /\ reads' = IF Len(r.data) > 0 THEN reads + 1 ELSE reads
                     /\ stalls' = IF Len(r.data) = 0
                                  THEN Min(stalls + 1, MaxStalls)
                                  ELSE stalls
                     /\ UNCHANGED <<pc, status>>
                ELSE UNCHANGED <<pc, status, capture_buffer, count, received,
                                 reads, stalls>>
    /\ UNCHANGED <<cur_config, saved_config, total_samples, io, transport,
                   drawn, redraw, codec, filled>>

CaptureRead ==
    /\ pc = "reading"
    /\ LoopTest(count, total_samples)
    /\ LET length == ReadLength(count, total_samples)
       IN  \E r \in ReadOutcomes(count, length) :
             /\ last_read' = [ep |-> EP_IN, length |-> length, ok |-> r.ok,
                              got |-> Len(r.data)]
             /\ IF r.ok
                THEN /\ capture_buffer' =
                          SliceAssign(capture_buffer, count,
                                      count + Len(r.data), r.data)
                     /\ count' = count + Len(r.data)
                     /\ received' = received \o r.data
                     /\ reads' = IF Len(r.data) > 0 THEN reads + 1 ELSE reads
                     /\ stalls' = IF Len(r.data) = 0
                                  THEN Min(stalls + 1, MaxStalls)
                                  ELSE stalls
                     /\ UNCHANGED <<pc, status>>
                ELSE /\ pc' = "idle"
                     /\ status' = USBError
                     /\ UNCHANGED <<capture_buffer, count, received, reads,
                                    stalls>>
    /\ UNCHANGED <<cur_config, saved_config, total_samples, io, transport,
                   drawn, redraw, codec, filled>>

\* the loop test fails: drawing_area.queue_draw(), line 331, and return
CaptureFinish_Eager ==
    /\ pc = "reading"
    /\ redraw' = TRUE
    /\ pc' = "idle"
    /\ status' = "ok"
    /\ filled' = [done |-> TRUE, channel_enable |-> cur_config.channel_enable,
                  num_samples |-> cur_config.num_samples, count |-> count]
    /\ UNCHANGED <<cur_config, saved_config, capture_buffer, total_samples,
                   count, reads, stalls, received, last_read, io, transport,
                   drawn, codec>>

CaptureFinish ==
    /\ pc = "reading"
    /\ ~LoopTest(count, total_samples)
    /\ redraw' = TRUE
    /\ pc' = "idle"
    /\ status' = "ok"
    /\ filled' = [done |-> TRUE, channel_enable |-> cur_config.channel_enable,
                  num_samples |-> cur_config.num_samples, count |-> count]
    /\ UNCHANGED <<cur_config, saved_config, capture_buffer, total_samples,
                   count, reads, stalls, received, last_read, io, transport,
                   drawn, codec>>

(***************************************************************************)
(* draw_callback, lines 358-372: the waveform of each enabled channel      *)
(***************************************************************************)
\* the buffer offset read for sample x of channel index ch: capture_buffer[ch]
\* for x = 0 (line 365), capture_buffer[x * num_channels + ch] after (line 368)
DrawOffset(cfg, ch, x) == x * NumChannels(cfg) + ch

\* capture_buffer[i] raises IndexError for i >= len(capture_buffer); the
\* offsets of a channel grow with x, so the last one decides
DrawRaises(cfg, buf, ch) ==
    DrawOffset(cfg, ch, Max(cfg.num_samples, 1) - 1) >= BufLen(buf)

\* the (offset, byte) pairs of a channel in sample order: sample 0, then
\* range(1, num_samples)
DrawSeries(cfg, buf, ch) ==
    [i \in 1..Max(cfg.num_samples, 1) |->
        [idx |-> DrawOffset(cfg, ch, i - 1),
         val |-> BufGet(buf, DrawOffset(cfg, ch, i - 1))]]

\* Channel 0 is drawn before channel 1; a disabled channel is skipped; an
\* IndexError ends the callback, leaving the channels after it undrawn.
\* <<>> stands for a channel that got no series.
DrawCallback_Consuming ==
    /\ pc = "idle"
    /\ LET en(ch)   == cur_config.channel_enable[ch + 1]
           bad(ch)  == en(ch) /\ DrawRaises(cur_config, capture_buffer, ch)
           line(ch) == IF en(ch) /\ ~bad(ch) /\ (ch = 0 \/ ~bad(0))
                       THEN DrawSeries(cur_config, capture_buffer, ch)
                       ELSE <<>>
       IN  /\ drawn' = [done |-> TRUE, series |-> <<line(0), line(1)>>]
           /\ status' = IF bad(0) \/ bad(1) THEN "IndexError" ELSE "ok"
    /\ capture_buffer' = ByteArray(BufLen(capture_buffer))
    /\ io' = IO("draw_callback", "", NoCommand, <<>>)
    /\ redraw' = FALSE
    /\ NoCapture
    /\ UNCHANGED <<cur_config, saved_config, pc, transport, codec, filled>>

DrawCallback ==
    /\ pc = "idle"
    /\ LET en(ch)   == cur_config.channel_enable[ch + 1]
           bad(ch)  == en(ch) /\ DrawRaises(cur_config, capture_buffer, ch)
           line(ch) == IF en(ch) /\ ~bad(ch) /\ (ch = 0 \/ ~bad(0))
                       THEN DrawSeries(cur_config, capture_buffer, ch)
                       ELSE <<>>
       IN  /\ drawn' = [done |-> TRUE, series |-> <<line(0), line(1)>>]
           /\ status' = IF bad(0) \/ bad(1) THEN "IndexError" ELSE "ok"
    /\ io' = IO("draw_callback", "", NoCommand, <<>>)
    /\ redraw' = FALSE
    /\ NoCapture
    /\ UNCHANGED <<cur_config, saved_config, capture_buffer, pc, transport,
                   codec, filled>>

(***************************************************************************)
(* Spec: the capture pipeline with few samples and every kind of device    *)
(***************************************************************************)
MaxSamples == 2

\* num_samples as the spin button or the configuration file gives it; -1 and
\* 65536 do not fit the 16 bit field of the capture-start frame
SmallSamples == (0..MaxSamples) \cup {-1, 65536}

Flags == {<<a, b>> : a \in BOOLEAN, b \in BOOLEAN}

Init == InitWith({Config(ce, ns) : ce \in Flags, ns \in SmallSamples},
                 TransportKinds)

Next ==
    \/ OnChannelEnable
    \/ OnCaptureSamples(SmallSamples)
    \/ CaptureStart
    \/ CaptureRead
    \/ CaptureFinish
    \/ DrawCallback

Spec == Init /\ [][Next]_vars

\* The interpreter runs a started handler on: while the loop test holds it
\* makes the next read, and when it fails it returns.
FairSpec == Spec /\ WF_vars(CaptureRead) /\ WF_vars(CaptureFinish)

(***************************************************************************)
(* The handlers of the other settings.  Each assigns its field of          *)
(* cur_config, then calls send_command, then save_config; an exception     *)
(* ends the handler where it is raised.                                    *)
(***************************************************************************)
\* a handler that has assigned cfg to cur_config and goes on to send c,
\* whose vals are PackError when building them raised struct.error
Setting(name, cfg, c) ==
    /\ pc = "idle"
    /\ cur_config' = cfg
    /\ IF ~IsBytes(c.vals)
       THEN /\ io' = IO(name, "", NoCommand, <<>>)
            /\ status' = StructError
            /\ saved_config' = saved_config
       ELSE \E r \in SendCommand(c) :
              /\ io' = IO(name, "", c, r.wrote)
              /\ status' = r.status
              /\ saved_config' = SaveConfig(r.status, cfg)
    /\ drawn' = NoDraw
    /\ redraw' = FALSE
    /\ NoCapture
    /\ UNCHANGED <<capture_buffer, pc, transport, codec, filled>>

\* on_time_scale: val = widget.get_active()
OnTimeScale(values) ==
    \E val \in values :
      Setting("on_time_scale", [cur_config EXCEPT !.time_scale = val],
              HantekCommand(FUNC_SCOPE_SETTING, SCOPE_SCALE_TIME,
                            <<val, 0, 0, 0>>))

\* on_time_offset: val = widget.get_value(), in thousandths
OnTimeOffset(values) ==
    \E val \in values :
      Setting("on_time_offset", [cur_config EXCEPT !.time_offset = val],
              HantekCommand(FUNC_SCOPE_SETTING, SCOPE_OFFSET_TIME,
                            <<IntOfMilli(val), 0, 0, 0>>))

\* on_trigger_source: val = widget.get_active()
OnTriggerSource(values) ==
    \E val \in values :
      Setting("on_trigger_source", [cur_config EXCEPT !.trigger_source = val],
              HantekCommand(FUNC_SCOPE_SETTING, SCOPE_TRIGGER_SOURCE,
                            <<val, 0, 0, 0>>))

\* on_trigger_level: val = widget.get_value(), in thousandths
OnTriggerLevel(values) ==
    \E val \in values :
      Setting("on_trigger_level", [cur_config EXCEPT !.trigger_level = val],
              HantekCommand(FUNC_SCOPE_SETTING, SCOPE_TRIGGER_LEVEL,
                            <<IntOfMilli(val), 0, 0, 0>>))

\* lines 254-255: the command of on_awg_freq for val = int(widget.get_value()),
\* a Wide integer; cmd.vals = list(struct.pack('<I', val))
AwgFreqCommand_BigEndian(val) ==
    [HantekCommand(FUNC_AWG_SETTING, AWG_FREQ, DefaultVals)
        EXCEPT !.vals = IF IsBytes(PackI(val))
                        THEN [i \in 1..4 |-> PackI(val)[5 - i]]
                        ELSE PackError]

AwgFreqCommand(val) ==
    [HantekCommand(FUNC_AWG_SETTING, AWG_FREQ, DefaultVals)
        EXCEPT !.vals = PackI(val)]

OnAwgFreq(values) ==
    \E val \in values :
      Setting("on_awg_freq", [cur_config EXCEPT !.awg_frequency = val],
              AwgFreqCommand(val))

\* lines 263 and 271: [abs(int(val*1000)), int(val < 0), 0, 0] for val held
\* in millionths, so that val*1000 is val thousandths
ScaledVals_Unsigned(val) == <<Abs(IntOfMilli(val)), 0, 0, 0>>

ScaledVals(val) == <<Abs(IntOfMilli(val)), BoolInt(val < 0), 0, 0>>

OnAwgAmp(values) ==
    \E val \in values :
      Setting("on_awg_amp", [cur_config EXCEPT !.awg_amplitude = val],
              HantekCommand(FUNC_AWG_SETTING, AWG_AMP, ScaledVals(val)))

OnAwgOffset(values) ==
    \E val \in values :
      Setting("on_awg_offset", [cur_config EXCEPT !.awg_offset = val],
              HantekCommand(FUNC_AWG_SETTING, AWG_OFF, ScaledVals(val)))

\* a handler that only sends the command c: on_awg_start, on_awg_stop, on_radio
SendOnly(name, widget, c) ==
    /\ pc = "idle"
    /\ \E r \in SendCommand(c) :
         /\ io' = IO(name, widget, c, r.wrote)
         /\ status' = r.status
    /\ drawn' = NoDraw
    /\ redraw' = FALSE
    /\ NoCapture
    /\ UNCHANGED <<cur_config, saved_config, capture_buffer, pc, transport,
                   codec, filled>>

OnAwgStart ==
    SendOnly("on_awg_start", "",
             HantekCommand(FUNC_AWG_SETTING, AWG_START, <<1, 0, 0, 0>>))

OnAwgStop ==
    SendOnly("on_awg_stop", "",
             HantekCommand(FUNC_AWG_SETTING, AWG_START, <<0, 0, 0, 0>>))

\* on_radio(button): the screen of the radio button
ScreenVal(button) ==
    CASE button = "scope_radio" -> SCREEN_VAL_SCOPE
      [] button = "awg_radio"   -> SCREEN_VAL_AWG
      [] OTHER                  -> SCREEN_VAL_DMM

OnRadio ==
    \E button \in {"scope_radio", "awg_radio", "dmm_radio"} :
      SendOnly("on_radio", button,
               HantekCommand(FUNC_SCREEN_SETTING, 0,
                             <<ScreenVal(button), 0, 0, 0>>))

\* on_channel_offset, on_channel_coupling, on_channel_scale, on_channel_probe
\* and on_channel_bwlimit: save_config(cur_config) and nothing else
OnChannelOther ==
    /\ pc = "idle"
    /\ saved_config' = cur_config
    /\ io' = IO("on_channel_offset", "", NoCommand, <<>>)
    /\ status' = "ok"
    /\ drawn' = NoDraw
    /\ redraw' = FALSE
    /\ NoCapture
    /\ UNCHANGED <<cur_config, capture_buffer, pc, transport, codec, filled>>

(***************************************************************************)
(* SpecSettings: every handler that writes to the device or to the file,   *)
(* with a device that answers every read and accepts every write.          *)
(* Every setting is given a value that fits its byte of the frame; the     *)
(* time offset and the AWG amplitude also one that does not.               *)
(***************************************************************************)
TimeScaleValues == {1}

TimeOffsetValues == {-500, 300000}

TriggerSourceValues == {1}

TriggerLevelValues == {1500}

AwgFreqValues == {Wide(1, 34464)}

AwgAmpValues == {100000, 2500000}

AwgOffsetValues == {-50000}

SettingsSamples == {1}

InitSettings ==
    InitWith({Config(<<TRUE, TRUE>>, ns) : ns \in SettingsSamples},
             {"full"})

NextSettings ==
    \/ OnChannelEnable
    \/ OnChannelOther
    \/ OnTimeScale(TimeScaleValues)
    \/ OnTimeOffset(TimeOffsetValues)
    \/ OnTriggerSource(TriggerSourceValues)
    \/ OnTriggerLevel(TriggerLevelValues)
    \/ OnAwgFreq(AwgFreqValues)
    \/ OnAwgAmp(AwgAmpValues)
    \/ OnAwgOffset(AwgOffsetValues)
    \/ OnAwgStart
    \/ OnAwgStop
    \/ OnRadio
    \/ OnCaptureSamples(SettingsSamples)
    \/ CaptureStart
    \/ CaptureRead
    \/ CaptureFinish

SpecSettings == InitSettings /\ [][NextSettings]_vars

(***************************************************************************)
(* SpecCapacity: the capture pipeline with sample counts up to and past    *)
(* the 6000 byte buffer, and a device that answers every read in full or   *)
(* not at all.                                                             *)
(***************************************************************************)
CapacitySamples == {DEFAULT_NUM_SAMPLES, 3000, 6000, 6001}

InitCapacity ==
    InitWith({Config(ce, ns) : ce \in Flags, ns \in CapacitySamples},
             {"full", "stalled"})

NextCapacity ==
    \/ OnChannelEnable
    \/ OnCaptureSamples(CapacitySamples)
    \/ CaptureStart
    \/ CaptureRead
    \/ CaptureFinish
    \/ DrawCallback

SpecCapacity == InitCapacity /\ [][NextCapacity]_vars

(***************************************************************************)
(* SpecAwg: the handlers of the generator, with amplitudes and offsets     *)
(* (in microvolts) around 0 and around the 255 mV that fit the frame's     *)
(* byte, whole millivolts and not.                                         *)
(***************************************************************************)
AwgValues ==
    {-256000, -255000, -1000, -700, 0, 700, 1000, 128500, 255000, 255999,
     256000}

InitAwg == InitWith({Config(<<TRUE, TRUE>>, DEFAULT_NUM_SAMPLES)}, {"full"})

NextAwg ==
    \/ OnAwgAmp(AwgValues)
    \/ OnAwgOffset(AwgValues)
    \/ OnAwgStart
    \/ OnAwgStop

SpecAwg == InitAwg /\ [][NextAwg]_vars

(***************************************************************************)
(* SpecChunks: captures of one and of two chunks and a byte, with a device *)
(* that answers every read in full or with one byte at a time.             *)
(***************************************************************************)
ChunkSamples == {CHUNK + 1}

InitChunks ==
    InitWith({Config(ce, ns) : ce \in Flags, ns \in ChunkSamples},
             {"full", "trickle"})

NextChunks ==
    \/ OnChannelEnable
    \/ CaptureStart
    \/ CaptureRead
    \/ CaptureFinish
    \/ DrawCallback

SpecChunks == InitChunks /\ [][NextChunks]_vars

(***************************************************************************)
(* SpecCodec: the encoders applied on their own to inputs that cover the   *)
(* edges of every field: send_command on a command, the capture-start      *)
(* command of a configuration, the command of on_awg_freq for a frequency. *)
(***************************************************************************)
CodecFuncs == {FUNC_SCOPE_SETTING, FUNC_AWG_SETTING, FUNC_SCREEN_SETTING,
               FUNC_SCOPE_CAPTURE, 4660, 65535}

CodecCmds == {SCOPE_ENABLE_CH1, SCOPE_START_RECV, 255}

CodecVals == {-1, 0, 1, 255, 256}

CodecSamples == {-1, 0, 1, 255, 256, 257, DEFAULT_NUM_SAMPLES, 6000, 65279,
                 65535, 65536}

CodecLimbs == {0, 1, 255, 256, 1000, 65535}

CodecFreqs == {Wide(hi, lo) : hi \in CodecLimbs \cup {-1, 65536},
                              lo \in CodecLimbs}

CodecCalls ==
    {[NoCall EXCEPT !.op = "send_command", !.cmd = HantekCommand(f, c, v)] :
        f \in CodecFuncs, c \in CodecCmds, v \in [1..4 -> CodecVals]}
    \cup {[NoCall EXCEPT !.op = "capture_start", !.flags = ce, !.samples = ns] :
            ce \in Flags, ns \in CodecSamples}
    \cup {[NoCall EXCEPT !.op = "awg_freq", !.val = w] : w \in CodecFreqs}

InitCodec ==
    /\ cur_config = DefaultConfig
    /\ saved_config = cur_config
    /\ capture_buffer = ByteArray(BUFFER_SIZE)
    /\ pc = "idle"
    /\ total_samples = 0
    /\ count = 0
    /\ reads = 0
    /\ stalls = 0
    /\ received = <<>>
    /\ last_read = NoRead
    /\ io = IO("main", "", NoCommand, <<>>)
    /\ status = "ok"
    /\ transport = "full"
    /\ drawn = NoDraw
    /\ redraw = FALSE
    /\ codec \in CodecCalls
    /\ filled = NoFill

\* the command c is built (its vals PackError when that raised) and, if it
\* was built, handed to send_command
Call(op, c) ==
    /\ codec.op = op
    /\ ~codec.done
    /\ codec' = [codec EXCEPT !.done = TRUE]
    /\ IF ~IsBytes(c.vals)
       THEN /\ io' = IO(op, "", NoCommand, <<>>)
            /\ status' = StructError
       ELSE \E r \in SendCommand(c) :
              /\ io' = IO(op, "", c, r.wrote)
              /\ status' = r.status
    /\ UNCHANGED <<cur_config, saved_config, capture_buffer, pc,
                   total_samples, count, reads, stalls, received, last_read,
                   transport, drawn, redraw, filled>>

CallSendCommand == Call("send_command", codec.cmd)

CallCaptureCommand ==
    Call("capture_start", CaptureCommand(Config(codec.flags, codec.samples)))

CallAwgFreqCommand == Call("awg_freq", AwgFreqCommand(codec.val))

NextCodec ==
    \/ CallSendCommand
    \/ CallCaptureCommand
    \/ CallAwgFreqCommand

SpecCodec == InitCodec /\ [][NextCodec]_vars

(***************************************************************************)
(* Properties                                                              *)
(***************************************************************************)
\* the channels enabled in cur_config
EnabledCount == Cardinality({i \in 1..2 : cur_config.channel_enable[i]})

\* the last handler wrote exactly one frame
WroteOne == Len(io.wrote) = 1

\* bytes 5..8 (from 0) of the frame the last handler wrote: the payload
Payload == SubSeq(io.wrote[1].data, 6, 9)

C1_Valid(c) ==
    /\ c.func \in 0..65535
    /\ c.cmd \in 0..255
    /\ \A i \in 1..4 : c.vals[i] \in 0..255

C1_Layout(c) ==
    <<0, 10, c.func % 256, c.func \div 256, c.cmd,
      c.vals[1], c.vals[2], c.vals[3], c.vals[4], 0>>

C1_Decode(b) ==
    [func |-> b[3] + 256 * b[4], cmd |-> b[5],
     vals |-> <<b[6], b[7], b[8], b[9]>>]

\* C1: for every func in 0..65535, cmd in 0..255 and vals in 0..255, the
\* frame of the command is the 10 bytes [0x00, 0x0A, func low, func high,
\* cmd, vals[0..3], 0x00], and decoding its bytes 2..8 by that layout gives
\* back (func, cmd, vals).
C1_FrameRoundTrip ==
    (codec.op = "send_command" /\ codec.done /\ C1_Valid(codec.cmd)) =>
        /\ status = "ok"
        /\ WroteOne
        /\ Len(io.wrote[1].data) = 10
        /\ io.wrote[1].data = C1_Layout(codec.cmd)
        /\ C1_Decode(io.wrote[1].data) = codec.cmd

\* the scenario encode(func=0x0000, cmd=0x00, vals=[1,0,0,0])
C1_Witness ==
    /\ codec.op = "send_command"
    /\ codec.done
    /\ codec.cmd = HantekCommand(0, 0, <<1, 0, 0, 0>>)
    /\ WroteOne
    /\ io.wrote[1].data = <<0, 10, 0, 0, 0, 1, 0, 0, 0, 0>>

C2_OutOfRange(c) == \E i \in 1..4 : c.vals[i] > 255 \/ c.vals[i] < 0

\* C2: a command with a vals entry above 255 or below 0 fails to encode
\* with struct.error, and send_command writes nothing for it.
C2_RangeRejection ==
    (io.cmd # NoCommand /\ C2_OutOfRange(io.cmd)) =>
        /\ status = StructError
        /\ io.wrote = <<>>

C2_Witness ==
    /\ codec.done
    /\ io.cmd = HantekCommand(FUNC_SCOPE_SETTING, SCOPE_ENABLE_CH1,
                              <<0, 256, 0, -1>>)
    /\ status = StructError
    /\ io.wrote = <<>>

\* C8: for num_samples in 0..65535 the capture-start frame has func 0x0100,
\* cmd 0x16 and the payload [c1 low, c1 high, c2 low, c2 high], c1 and c2
\* being num_samples for an enabled channel and 0 for a disabled one.
C8_CaptureStartFrame ==
    (codec.op = "capture_start" /\ codec.done /\ codec.samples \in 0..65535) =>
        LET c1 == IF codec.flags[1] THEN codec.samples ELSE 0
            c2 == IF codec.flags[2] THEN codec.samples ELSE 0
        IN  /\ status = "ok"
            /\ WroteOne
            /\ SubSeq(io.wrote[1].data, 3, 5) = <<0, 1, 22>>
            /\ Payload = <<c1 % 256, c1 \div 256, c2 % 256, c2 \div 256>>

\* 1200 samples of channel 1 alone: 1200 = 0x04B0
C8_Witness ==
    /\ codec.op = "capture_start"
    /\ codec.done
    /\ codec.samples = 1200
    /\ codec.flags = <<TRUE, FALSE>>
    /\ WroteOne
    /\ Payload = <<176, 4, 0, 0>>

\* quotient and remainder of a Wide integer divided by 256
C9_Div256(w) == Wide(w[1] \div 256, (w[1] % 256) * 256 + w[2] \div 256)

C9_Mod256(w) == w[2] % 256

\* (f div 256^i) mod 256
RECURSIVE C9_Digit(_, _)
C9_Digit(w, i) == IF i = 0 THEN C9_Mod256(w) ELSE C9_Digit(C9_Div256(w), i - 1)

\* C9: for an AWG frequency f in 0..2^32-1 the frame of on_awg_freq has
\* vals[i] = (f div 256^i) mod 256 for i = 0..3; for f = 1000 the payload is
\* [0xE8, 0x03, 0x00, 0x00].
C9_AwgFreqLittleEndian ==
    (codec.op = "awg_freq" /\ codec.done /\ codec.val[1] \in 0..65535) =>
        /\ status = "ok"
        /\ WroteOne
        /\ Payload = [i \in 1..4 |-> C9_Digit(codec.val, i - 1)]
        /\ codec.val = Wide(0, 1000) => Payload = <<232, 3, 0, 0>>

C9_Witness ==
    /\ codec.op = "awg_freq"
    /\ codec.done
    /\ codec.val = Wide(0, 1000)
    /\ WroteOne
    /\ Payload = <<232, 3, 0, 0>>

\* the last handler is a capture
IsCapture == io.handler = "on_capture_button_clicked"

\* C3: a capture that ends without an error has received exactly
\* num_samples * enabled_channel_count bytes, whatever the device did.
C3_ByteAccounting ==
    (IsCapture /\ pc = "idle" /\ status = "ok") =>
        /\ count = cur_config.num_samples * EnabledCount
        /\ Len(received) = cur_config.num_samples * EnabledCount

\* a capture of 2 samples of 2 channels that met empty and short reads
C3_Witness ==
    /\ IsCapture
    /\ pc = "idle"
    /\ status = "ok"
    /\ transport = "erratic"
    /\ cur_config.num_samples = 2
    /\ EnabledCount = 2
    /\ stalls > 0
    /\ reads > 1
    /\ count = 4

\* C4: when num_samples * enabled_channel_count exceeds 6000 the capture
\* fails before any I/O: no frame is written and no read is made.
C4_CapacityCheck ==
    (IsCapture /\ cur_config.num_samples * EnabledCount > 6000) =>
        /\ io.wrote = <<>>
        /\ last_read = NoRead
        /\ pc = "idle"
        /\ status \notin {"ok", "running"}

\* C5: with a device whose every read returns 0 bytes and a capture that
\* expects at least 1 byte, the loop does not go on past the retry budget.
C5_TimeoutEnforced ==
    (pc = "reading" /\ transport = "stalled" /\ total_samples >= 1) =>
        stalls <= RetryBudget

C6_Device == transport \in {"full", "trickle"}

C6_Capture == IsCapture /\ C6_Device /\ total_samples \in 2..6000

C6_Sound ==
    C6_Capture =>
        /\ status \in {"running", "ok"}
        /\ stalls = 0
        /\ reads <= count
        /\ count <= total_samples
        /\ Len(received) = count
        /\ pc = "idle" => (count = total_samples /\ reads <= total_samples)

\* C6: with a device whose every read returns at least 1 byte and at most
\* the requested length, a capture that expects N bytes, 1 < N <= 6000,
\* completes, after at most N reads whose byte counts sum to N, and no short
\* read ends it with an error.
C6_ShortReadResilience ==
    /\ []C6_Sound
    /\ (pc = "reading" /\ C6_Capture) ~> (pc = "idle" /\ status = "ok")

\* 4 bytes read one at a time
C6_Witness ==
    /\ IsCapture
    /\ transport = "trickle"
    /\ pc = "idle"
    /\ status = "ok"
    /\ total_samples = 4
    /\ reads = 4
    /\ count = 4

\* the position of channel index ch among the enabled channels
C7_Slot(ch) == Cardinality({k \in 0..(ch - 1) : cur_config.channel_enable[k + 1]})

\* C7: for sample x in [0, num_samples) a draw uses, for an enabled
\* channel, the byte at offset x * enabled_channel_count + slot, slot being
\* the channel's position among the enabled ones; a disabled channel gets
\* no series.
C7_DemuxInterleaving ==
    (drawn.done /\ status = "ok") =>
        \A ch \in 0..1 :
            IF cur_config.channel_enable[ch + 1]
            THEN \A x \in 0..(cur_config.num_samples - 1) :
                    LET at == x * EnabledCount + C7_Slot(ch)
                    IN  drawn.series[ch + 1][x + 1] =
                            [idx |-> at, val |-> BufGet(capture_buffer, at)]
            ELSE drawn.series[ch + 1] = <<>>

C10_Codes(handler, widget) ==
    CASE handler = "on_channel_enable" ->
             <<0, IF widget = "channel_enable_switch_ch1" THEN 0 ELSE 6>>
      [] handler = "on_time_scale"             -> <<0, 14>>
      [] handler = "on_time_offset"            -> <<0, 15>>
      [] handler = "on_trigger_source"         -> <<0, 16>>
      [] handler = "on_trigger_level"          -> <<0, 20>>
      [] handler = "on_capture_button_clicked" -> <<256, 22>>
      [] handler = "on_awg_freq"               -> <<2, 1>>
      [] handler = "on_awg_amp"                -> <<2, 2>>
      [] handler = "on_awg_offset"             -> <<2, 3>>
      [] handler = "on_awg_start"              -> <<2, 8>>
      [] handler = "on_awg_stop"               -> <<2, 8>>
      [] handler = "on_radio"                  -> <<3, 0>>
      [] OTHER                                 -> <<-1, -1>>

\* C10: every write goes to endpoint 0x02 and carries the func and cmd
\* codes documented for the handler that made it.
C10_DocumentedCodes ==
    \A i \in 1..Len(io.wrote) :
        LET w == io.wrote[i]
            codes == C10_Codes(io.handler, io.widget)
        IN  /\ w.ep = 2
            /\ Len(w.data) = 10
            /\ w.data[3] + 256 * w.data[4] = codes[1]
            /\ io.handler # "on_radio" => w.data[5] = codes[2]

\* the enable frame of channel 2
C10_Witness ==
    /\ io.handler = "on_channel_enable"
    /\ io.widget = "channel_enable_switch_ch2"
    /\ WroteOne
    /\ io.wrote[1].ep = 2
    /\ io.wrote[1].data[5] = 6

\* C11: after any sequence of captures, channel-enable changes and
\* num_samples changes, with any device, len(capture_buffer) is 6000.
C11_FixedCapacity == BufLen(capture_buffer) = 6000

\* C12: a draw leaves the capture buffer and the configuration, in memory
\* and on file, as they were, and a draw that follows a draw decodes the same
\* series.
C12_DrawReadOnly ==
    [][drawn'.done =>
          /\ capture_buffer' = capture_buffer
          /\ cur_config' = cur_config
          /\ saved_config' = saved_config
          /\ drawn.done => drawn' = drawn]_vars

\* a draw of both channels of a captured buffer
C12_Witness ==
    /\ drawn.done
    /\ status = "ok"
    /\ capture_buffer.bytes # <<>>
    /\ cur_config.num_samples = 2
    /\ Len(drawn.series[1]) = 2
    /\ Len(drawn.series[2]) = 2

\* C13: after any sequence of setting handlers, whenever no handler is
\* running the persisted record equals the in-memory configuration.
C13_PersistedEqualsMemory == pc = "idle" => saved_config = cur_config

\* C14: every read of the loop is made on endpoint 0x81 and asks for
\* min(remaining, 64) bytes, between 1 and 64; each chunk is stored at the
\* next free offset, so that the bytes received so far are the start of the
\* buffer and, on completion, its first total_samples bytes are the chunks
\* in order.
C14_ChunkedReads ==
    /\ last_read # NoRead =>
          LET remaining == total_samples - (count - last_read.got)
          IN  /\ last_read.ep = 129
              /\ last_read.length = (IF remaining < 64 THEN remaining ELSE 64)
              /\ last_read.length \in 1..64
              /\ last_read.got <= last_read.length
    /\ IsCapture => BufPrefix(capture_buffer, count) = received
    /\ (IsCapture /\ pc = "idle" /\ status = "ok") =>
          /\ BufPrefix(capture_buffer, total_samples) = received
          /\ \A k \in 0..(total_samples - 1) :
                BufGet(capture_buffer, k) = received[k + 1]

\* 130 bytes read one at a time: the first reads asked for 64 bytes, the
\* last one for the byte that remained
C14_Witness ==
    /\ IsCapture
    /\ pc = "idle"
    /\ status = "ok"
    /\ transport = "trickle"
    /\ total_samples = 130
    /\ reads = 130
    /\ Len(received) = 130
    /\ last_read = [ep |-> 129, length |-> 1, ok |-> TRUE, got |-> 1]

\* a capture's loop is running or has made a read
C15_InLoop == pc = "reading" \/ last_read # NoRead

C15_Order ==
    /\ C15_InLoop =>
          /\ IsCapture
          /\ Len(io.wrote) = 1
          /\ io.wrote[1].ep = 2
          /\ SubSeq(io.wrote[1].data, 1, 5) = <<0, 10, 0, 1, 22>>
    /\ redraw =>
          /\ IsCapture
          /\ Len(io.wrote) = 1
          /\ pc = "idle"
          /\ count = total_samples
          /\ Len(received) = total_samples

\* C15: every capture is command, reads, render: one capture-start frame is
\* written before the first read, no frame is written while the loop runs,
\* and the redraw is requested only once the loop has collected the whole
\* expected byte count.
C15_CommandReadsRender ==
    /\ []C15_Order
    /\ [][/\ pc = "reading" => io' = io
          /\ last_read' # last_read /\ last_read' # NoRead =>
                pc = "reading" /\ ~redraw
          /\ redraw' /\ ~redraw => pc = "reading" /\ count = total_samples]_vars

\* the redraw requested after 4 bytes came in several reads
C15_Witness ==
    /\ redraw
    /\ IsCapture
    /\ WroteOne
    /\ total_samples = 4
    /\ count = 4
    /\ reads > 1
    /\ stalls > 0

\* the write of the capture-start frame failed
C16_WriteFailed == IsCapture /\ status = "USBError" /\ io.wrote = <<>>

\* a read of the loop failed
C16_ReadFailed == last_read # NoRead /\ ~last_read.ok

C16_Ended ==
    /\ C16_WriteFailed =>
          pc = "idle" /\ ~redraw /\ last_read = NoRead /\ count = 0
    /\ C16_ReadFailed =>
          /\ IsCapture
          /\ pc = "idle"
          /\ status = "USBError"
          /\ ~redraw
          /\ last_read.got = 0
          /\ Len(received) = count
    /\ (IsCapture /\ status = "USBError") => (C16_WriteFailed \/ C16_ReadFailed)

\* C16: a failed write or read ends the capture with that error at once:
\* no read follows, no redraw is requested and the partial capture is never
\* taken up again; the capture after it starts from the command, writing a
\* capture-start frame and counting from 0.
C16_FailureEndsCapture ==
    /\ []C16_Ended
    /\ [][(IsCapture /\ status = "USBError") =>
             /\ ~redraw'
             /\ last_read' \in {last_read, NoRead}
             /\ count' \in {count, 0}
             /\ pc' = "reading" =>
                   /\ count' = 0
                   /\ received' = <<>>
                   /\ last_read' = NoRead
                   /\ status' = "running"
                   /\ Len(io'.wrote) = 1
                   /\ io'.wrote[1].ep = 2
                   /\ SubSeq(io'.wrote[1].data, 1, 5) = <<0, 10, 0, 1, 22>>]_vars

\* a read that failed after 3 of 4 bytes had been stored
C16_Witness ==
    /\ C16_ReadFailed
    /\ pc = "idle"
    /\ status = "USBError"
    /\ total_samples = 4
    /\ count = 3
    /\ BufPrefix(capture_buffer, 3) = received
    /\ ~redraw

\* the value, in microvolts, given to the last handler when it is on_awg_amp
\* or on_awg_offset
C17_Value ==
    IF io.handler = "on_awg_amp"
    THEN cur_config.awg_amplitude
    ELSE cur_config.awg_offset

\* abs(round(value * 1000)) for value of u microvolts, halves to even
C17_AbsRound(u) ==
    LET a == IF u < 0 THEN -u ELSE u
        q == a \div 1000
        r == a % 1000
    IN  IF r > 500 \/ (r = 500 /\ q % 2 = 1) THEN q + 1 ELSE q

\* C17: for every amplitude or offset of a whole number of millivolts of
\* magnitude at most 255, on_awg_amp and on_awg_offset send a frame whose
\* payload is [m, s, 0, 0], m = abs(round(value * 1000)), s = 1 for a
\* negative value and 0 otherwise.
C17_ScaledPayload ==
    (/\ io.handler \in {"on_awg_amp", "on_awg_offset"}
     /\ C17_Value % 1000 = 0
     /\ C17_AbsRound(C17_Value) <= 255) =>
        /\ status = "ok"
        /\ Len(io.wrote) = 1
        /\ io.wrote[1].ep = 2
        /\ SubSeq(io.wrote[1].data, 1, 5) =
              <<0, 10, 2, 0, IF io.handler = "on_awg_amp" THEN 2 ELSE 3>>
        /\ SubSeq(io.wrote[1].data, 6, 9) =
              <<C17_AbsRound(C17_Value),
                IF C17_Value < 0 THEN 1 ELSE 0, 0, 0>>

\* an offset of -0.255 V
C17_Witness ==
    /\ io.handler = "on_awg_offset"
    /\ cur_config.awg_offset = -255000
    /\ WroteOne
    /\ Payload = <<255, 1, 0, 0>>

\* the setting handlers that send a frame
C18_Handlers ==
    {"on_channel_enable", "on_time_scale", "on_time_offset",
     "on_trigger_source", "on_trigger_level", "on_awg_freq", "on_awg_amp",
     "on_awg_offset"}

\* C18: a setting handler changes the in-memory configuration only when its
\* frame is written: when the command is rejected by the encoding or the
\* write fails, cur_config is after the handler what it was before.
C18_ConfigOnlyWhenWritten ==
    [][(io'.handler \in C18_Handlers /\ Len(io'.wrote) = 0) =>
          cur_config' = cur_config]_vars

\* C19: after any sequence of num_samples changes, channel-enable changes
\* and captures, every buffer index a draw reads lies in
\* [0, len(capture_buffer)): no draw ends in an IndexError.
C19_DrawInRange ==
    drawn.done =>
        /\ status # "IndexError"
        /\ \A ch \in 1..2 :
              \A i \in 1..Len(drawn.series[ch]) :
                  /\ drawn.series[ch][i].idx >= 0
                  /\ drawn.series[ch][i].idx < BufLen(capture_buffer)

\* C20: a draw decodes the buffer with the enabled-channel set and the
\* num_samples of the last capture that ran to its end: it reads no
\* position that capture did not write and uses that capture's channel
\* count.
C20_DrawMatchesCapture ==
    (drawn.done /\ filled.done) =>
        /\ cur_config.channel_enable = filled.channel_enable
        /\ cur_config.num_samples = filled.num_samples
        /\ EnabledCount =
              Cardinality({i \in 1..2 : filled.channel_enable[i]})
        /\ \A ch \in 1..2 :
              \A i \in 1..Len(drawn.series[ch]) :
                  drawn.series[ch][i].idx < filled.count

====
